---- MODULE Spec2Model ----
(***************************************************************************)
(* Selection core of ExaMol: examol/select/base.py.                        *)
(*                                                                         *)
(* A Selector gathers batches of (keys, samples) with add_possibilities    *)
(* and hands out the best ones with dispense().  RankingSelector keeps the *)
(* to_select best (key, score) pairs in the list _options.                 *)
(*                                                                         *)
(* dispense() is a Python generator function: calling it only creates a    *)
(* generator object, its body (gathering = False, then the iteration over  *)
(* _options) runs when the generator is advanced.  The model keeps one     *)
(* outstanding generator (gen) that the driver advances step by step, and  *)
(* an operation that calls dispense() and consumes it in one go, the way   *)
(* list(selector.dispense()) does.                                         *)
(*                                                                         *)
(* The module also holds the score aggregator of the same file             *)
(* (_extract_observations), the ASESimulator of                            *)
(* examol/simulate/ase/__init__.py and the retraining and the molecule     *)
(* dictionaries of examol/score/nfp.py, each with its own variable and its *)
(* own specifications.                                                     *)
(***************************************************************************)
EXTENDS Integers, Sequences, FiniteSets, Bags, TLC

\* ------------------------------------------------------------------ bounds
MaxSelect == 3
MaxBatch == 2
MaxRound == 3
MaxObjectives == 2
MaxRecords == 2
MaxRecipes == 2
MaxFrames == 2

Keys == {"a", "b"}
Values == {1, 2, 3}
NDims == {2, 3, 4}
Properties == {"p", "q"}

\* ------------------------------------------------------------------ state
VARIABLES
    to_select,       \* Selector.to_select
    maximize,        \* RankingSelector.maximize: [scalar, flags]
    multiobjective,  \* Selector.multiobjective of the class of the instance
    gathering,       \* Selector.gathering
    options,         \* RankingSelector._options: sequence of [key, score]
    gen,             \* the outstanding generator returned by dispense()
    round,           \* history: candidates merged since _options was last cleared
    ret,             \* history: the last call, its arguments' shape and its outcome
    aggregator,      \* a call of _extract_observations: its arguments and its result
    simulator,       \* an ASESimulator, the directories around it and its last call
    scorer           \* a call of NFPScorer.retrain or of convert_string_to_dict:
                     \* its arguments and its outcome

selector == <<to_select, maximize, multiobjective, gathering, options, gen, round, ret>>

vars == <<selector, aggregator, simulator, scorer>>

\* the records handed to _extract_observations, in iteration order
database == aggregator.database

\* the recipes handed to _extract_observations
recipes == aggregator.recipes

\* what _extract_observations returned
observations == aggregator.observations

\* ASESimulator.clean_after_run
clean_after_run == simulator.clean_after_run

\* ASESimulator.retain_failed: <<>> when the instance has no such attribute
retain_failed == simulator.retain_failed

\* the retain_failed argument the simulator was constructed with
retain_failed_arg == simulator.retain_failed_arg

\* ASESimulator.ase_db_path: <<>> for None
ase_db_path == simulator.ase_db_path

\* the rows of the ASE database at ase_db_path, a bag of their key-value pairs
db == simulator.db

\* the trajectory of the last optimization
traj_lst == simulator.traj_lst

\* the working directory of the process
cwd == simulator.cwd

\* the run directories that exist
dirs == simulator.dirs

\* history: the last operation of the simulator and its outcome
simret == simulator.simret

config == <<to_select, maximize, multiobjective>>

\* ------------------------------------------------------------------ helpers
Min(a, b) == IF a <= b THEN a ELSE b

Range(s) == {s[i] : i \in 1..Len(s)}

SeqsUpTo(S, n) == UNION {[1..k -> S] : k \in 0..n}

\* samples: [ndim, vals]; vals[i][j] is the value of objective i for candidate j
\* (axis 2, the ensemble axis, has size 1; further axes of a 4-D array too).
Shape0(samples) == Len(samples.vals)

Shape1(samples) == Len(samples.vals[1])

SamplesOf(nd, no, nc, V) == {[ndim |-> nd, vals |-> v] : v \in [1..no -> [1..nc -> V]]}

\* maximize: a bool (scalar = TRUE, flags = <<b>>) or a sequence of bools.
Scalar(b) == [scalar |-> TRUE, flags |-> <<b>>]

Flags(f) == [scalar |-> FALSE, flags |-> f]

MaximizeChoices ==
    {Scalar(TRUE), Scalar(FALSE), Flags(<<TRUE>>), Flags(<<FALSE>>)}
        \cup {Flags(f) : f \in [1..MaxObjectives -> BOOLEAN]}

NoArgs == [ndim |-> 0, nobj |-> 0, ncand |-> 0, nkeys |-> 0, before |-> <<>>, after |-> <<>>]

\* The arguments of a call: their shapes, and what the caller's samples array
\* held when it was passed (before) and holds when the call is over (after).
ArgsOf(keys, samples) ==
    [ndim |-> samples.ndim, nobj |-> Shape0(samples),
     ncand |-> Shape1(samples), nkeys |-> Len(keys),
     before |-> samples.vals, after |-> samples.vals]

Ret(op, err, out, args) == [op |-> op, err |-> err, out |-> out, args |-> args]

NoGen == [st |-> "none", alias |-> FALSE, snap |-> <<>>, idx |-> 0]

\* ------------------------------------------------------------------ heapq.nlargest
\* heapq.nlargest(n, iterable, key) == sorted(iterable, key=key, reverse=True)[:n]:
\* descending by score, elements of equal score in their order in the iterable.
\* mutant: of two elements of equal score the later one is ranked first
RECURSIVE InsertDesc_unstable(_, _)
InsertDesc_unstable(s, x) ==
    IF s = <<>> THEN <<x>>
    ELSE IF Head(s).score > x.score THEN <<Head(s)>> \o InsertDesc_unstable(Tail(s), x)
    ELSE <<x>> \o s

RECURSIVE InsertDesc(_, _)
InsertDesc(s, x) ==
    IF s = <<>> THEN <<x>>
    ELSE IF Head(s).score >= x.score THEN <<Head(s)>> \o InsertDesc(Tail(s), x)
    ELSE <<x>> \o s

RECURSIVE SortDesc(_)
SortDesc(s) ==
    IF s = <<>> THEN <<>>
    ELSE InsertDesc(SortDesc(SubSeq(s, 1, Len(s) - 1)), s[Len(s)])

\* mutant: the cut at n is lost
nlargest_uncut(n, s) == SortDesc(s)

nlargest(n, s) == SubSeq(SortDesc(s), 1, Min(n, Len(s)))

\* ------------------------------------------------------------------ scoring
\* Per-objective maximize flags (base.py 150-152).
FlagsFor(n_objectives) ==
    IF maximize.scalar THEN [i \in 1..n_objectives |-> maximize.flags[1]]
    ELSE maximize.flags

\* mutant: the test of the flag is inverted
Negate_inverted(vals, flags) ==
    [i \in 1..Len(vals) |-> [j \in 1..Len(vals[i]) |->
        IF flags[i] THEN -vals[i][j] ELSE vals[i][j]]]

\* base.py 157-161: objectives that are minimized are negated in a copy.
Negate(vals, flags) ==
    [i \in 1..Len(vals) |-> [j \in 1..Len(vals[i]) |->
        IF flags[i] THEN vals[i][j] ELSE -vals[i][j]]]

\* mutant: the negation is written to the array that was passed in
NegateLocal_shared(vals, flags) ==
    [local |-> Negate(vals, flags), caller |-> Negate(vals, flags)]

\* base.py 157-161 with the arrays told apart: `samples = samples.copy()` gives the
\* local name an array of its own when some objective is minimized, otherwise the
\* local name still refers to the caller's array; the loop writes to the local one.
NegateLocal(vals, flags) ==
    LET copied == ~\A i \in 1..Len(flags) : flags[i]
        local == Negate(vals, flags)
    IN  [local |-> local, caller |-> IF copied THEN vals ELSE local]

RECURSIVE SumOver(_, _, _)
SumOver(vals, i, j) ==
    IF i = 0 THEN 0 ELSE vals[i][j] + SumOver(vals, i - 1, j)

\* The scoring policy: one score per candidate, here the (sign-adjusted) sample
\* value of the candidate, summed over the objectives.
assign_score(vals) == [j \in 1..Len(vals[1]) |-> SumOver(vals, Len(vals), j)]

\* mutant: the last pair is lost
Zip_short(keys, score) ==
    [j \in 1..(Min(Len(keys), Len(score)) - 1) |-> [key |-> keys[j], score |-> score[j]]]

\* zip(keys, score)
Zip(keys, score) ==
    [j \in 1..Min(Len(keys), Len(score)) |-> [key |-> keys[j], score |-> score[j]]]

\* ------------------------------------------------------------------ Selector
\* mutant: the gate ignores what the class declares
ObjectiveGate_any(samples) == Shape0(samples) > 1

\* base.py 89: the multi-objective gate.
ObjectiveGate(samples) == Shape0(samples) > 1 /\ ~multiobjective

\* An outcome: "ok" or the error raised, with the numbers its message cites.
Ok == [kind |-> "ok", cites |-> <<>>]

Error(kind, cites) == [kind |-> kind, cites |-> cites]

\* mutant: only missing samples are rejected, surplus samples are dropped
Validate_surplus(keys, samples) ==
    IF ObjectiveGate(samples) THEN Error("ObjectiveCountError", <<Shape0(samples)>>)
    ELSE IF samples.ndim # 3 THEN Error("ShapeError", <<3, samples.ndim>>)
    ELSE IF Shape1(samples) < Len(keys)
    THEN Error("KeyCountMismatchError", <<Len(keys), Shape1(samples)>>)
    ELSE Ok

\* base.py 88-94: the checks of add_possibilities, in the order of the code.
Validate(keys, samples) ==
    IF ObjectiveGate(samples) THEN Error("ObjectiveCountError", <<Shape0(samples)>>)
    ELSE IF samples.ndim # 3 THEN Error("ShapeError", <<3, samples.ndim>>)
    ELSE IF Shape1(samples) # Len(keys)
    THEN Error("KeyCountMismatchError", <<Len(keys), Shape1(samples)>>)
    ELSE Ok

\* mutant: surplus flags are tolerated
MaximizeMismatch_surplus(samples) ==
    ~maximize.scalar /\ Len(maximize.flags) < Shape0(samples)

\* base.py 151-154: a maximize sequence must have one flag per objective.
MaximizeMismatch(samples) ==
    ~maximize.scalar /\ Len(maximize.flags) # Shape0(samples)

\* base.py 163: the scores of a batch, after the sign convention.
ScoreBatch(samples) ==
    assign_score(NegateLocal(samples.vals, FlagsFor(Shape0(samples))).local)

\* the last option of each key
RECURSIVE LastPerKey(_)
LastPerKey(s) ==
    IF s = <<>> THEN <<>>
    ELSE IF \E j \in 2..Len(s) : s[j].key = Head(s).key THEN LastPerKey(Tail(s))
    ELSE <<Head(s)>> \o LastPerKey(Tail(s))

\* mutant: an option replaces the earlier option of the same key
Merge_by_key(retained, keys, score) ==
    nlargest(to_select, LastPerKey(retained \o Zip(keys, score)))

\* mutant: the cut is one place too late
Merge_one_more(retained, keys, score) ==
    nlargest(to_select + 1, retained \o Zip(keys, score))

\* mutant: the merge cuts without ranking
Merge_unranked(retained, keys, score) ==
    SubSeq(retained \o Zip(keys, score), 1, Min(to_select, Len(retained) + Len(keys)))

\* mutant: the retained options are left out of the merge
Merge_forgetful(retained, keys, score) == nlargest(to_select, Zip(keys, score))

\* base.py 164: the list that replaces _options.
Merge(retained, keys, score) == nlargest(to_select, retained \o Zip(keys, score))

\* history: what a batch adds to the round
Candidates(keys, samples, score) ==
    [j \in 1..Len(keys) |->
        [key |-> keys[j],
         raw |-> [i \in 1..Shape0(samples) |-> samples.vals[i][j]],
         score |-> score[j]]]

NoObservations == [called |-> FALSE, shape |-> <<>>, rows |-> <<>>]

\* no database has been aggregated
NoAggregator == [database |-> <<>>, recipes |-> <<>>, observations |-> NoObservations]

\* retrain has not been called
NoRetrain ==
    [called |-> FALSE, error |-> "", fit |-> FALSE, weights |-> FALSE,
     valid_x |-> 0, valid_steps |-> 0]

\* no molecule graph, and no dictionary made of one
NoGraph == [nodes |-> <<>>, bonds |-> <<>>]

NoDict ==
    [called |-> FALSE, error |-> "", atom |-> <<>>, bond |-> <<>>,
     connectivity |-> [shape |-> <<>>, rows |-> <<>>]]

\* a scorer that has trained nothing and converted nothing
NoScorer ==
    [model_msg |-> "NFPMessage", inputs |-> 0, batch_size |-> 32, validation_split |-> 10,
     nan |-> FALSE, retrained |-> NoRetrain, graph |-> NoGraph, mol_dict |-> NoDict]

\* the directory the process starts in, and a directory that has been deleted
StartDir == <<"start">>

Gone == <<"gone">>

NoPath == <<>>

NoRun == [op |-> "none", run_path |-> NoPath, body |-> "none", outcome |-> "none", error |-> ""]

\* no simulator has run
NoSimulator ==
    [clean_after_run |-> TRUE, retain_failed_arg |-> TRUE, retain_failed |-> <<>>,
     ase_db_path |-> <<>>, db |-> EmptyBag, traj_lst |-> <<>>,
     cwd |-> StartDir, dirs |-> {}, simret |-> NoRun]

\* The state after RankingSelector(to_select, maximize), for a class whose
\* multiobjective attribute is one of `classes`.
Construct(classes) ==
    /\ to_select \in 0..MaxSelect
    /\ maximize \in MaximizeChoices
    /\ multiobjective \in classes
    /\ gathering = TRUE
    /\ options = <<>>
    /\ gen = NoGen
    /\ round = <<>>
    /\ ret = Ret("init", Ok, <<>>, NoArgs)
    /\ aggregator = NoAggregator
    /\ simulator = NoSimulator
    /\ scorer = NoScorer

\* RankingSelector as it is in base.py: multiobjective is the class attribute False.
Init == Construct({FALSE})

\* RankingSelector and a subclass of it that declares multiobjective = True.
InitShape == Construct(BOOLEAN)

\* mutant: only the flag is set, the way Selector.start_gathering does
start_gathering_flag_only ==
    /\ gathering' = TRUE
    /\ ret' = Ret("start_gathering", Ok, <<>>, NoArgs)
    /\ UNCHANGED <<config, options, gen, round, aggregator, simulator, scorer>>

\* RankingSelector.start_gathering: the flag, then _options.clear() (in place: a
\* generator iterating that list sees it empty).
start_gathering ==
    /\ gathering' = TRUE
    /\ options' = <<>>
    /\ round' = <<>>
    /\ ret' = Ret("start_gathering", Ok, <<>>, NoArgs)
    /\ UNCHANGED <<config, gen, aggregator, simulator, scorer>>

\* Selector.add_possibilities and RankingSelector._add_possibilities.
add_possibilities(keys, samples) ==
    LET err == Validate(keys, samples)
        args == ArgsOf(keys, samples)
        restart == ~gathering
        retained == IF restart THEN <<>> ELSE options
        merged == IF restart THEN <<>> ELSE round
    IN  /\ Len(merged) + Shape1(samples) <= MaxRound
        /\ UNCHANGED <<aggregator, simulator, scorer>>
        /\ IF err # Ok
           THEN /\ ret' = Ret("add_possibilities", err, <<>>, args)
                /\ UNCHANGED <<config, gathering, options, gen, round>>
           ELSE IF MaximizeMismatch(samples)
           THEN \* raised by _add_possibilities, after the implicit start_gathering
                /\ gathering' = TRUE
                /\ options' = retained
                /\ round' = merged
                /\ ret' = Ret("add_possibilities",
                            Error("MaximizeLengthError", <<Shape0(samples), Len(maximize.flags)>>),
                            <<>>, args)
                /\ UNCHANGED <<config, gen>>
           ELSE LET score == ScoreBatch(samples)
                IN  /\ gathering' = TRUE
                    /\ options' = Merge(retained, keys, score)
                    /\ round' = merged \o Candidates(keys, samples, score)
                    \* _options is rebound to a new list: a running generator keeps
                    \* iterating the old list object
                    /\ gen' = IF gen.st = "running" /\ gen.alias
                              THEN [gen EXCEPT !.alias = FALSE, !.snap = retained]
                              ELSE gen
                    /\ ret' = Ret("add_possibilities", Ok, <<>>,
                                [args EXCEPT !.after =
                                    NegateLocal(samples.vals, FlagsFor(Shape0(samples))).caller])
                    /\ UNCHANGED config

\* Selector.dispense(): the call creates the generator and runs none of its body.
dispense ==
    /\ gen' = [st |-> "created", alias |-> FALSE, snap |-> <<>>, idx |-> 0]
    /\ ret' = Ret("dispense", Ok, <<>>, NoArgs)
    /\ UNCHANGED <<config, gathering, options, round, aggregator, simulator, scorer>>

\* mutant: the generator reads whatever list _options names now
GenList_current(g) == options

\* The list a running generator iterates.
GenList(g) == IF g.alias THEN options ELSE g.snap

\* next() on the generator: the first one runs `self.gathering = False` and starts
\* iterating the current _options; each one yields the next pair or ends.
next_pair ==
    /\ gen.st \in {"created", "running"}
    /\ LET started == IF gen.st = "created"
                      THEN [st |-> "running", alias |-> TRUE, snap |-> <<>>, idx |-> 0]
                      ELSE gen
           list == GenList(started)
       IN  /\ gathering' = IF gen.st = "created" THEN FALSE ELSE gathering
           /\ IF started.idx < Len(list)
              THEN /\ gen' = [started EXCEPT !.idx = @ + 1]
                   /\ ret' = Ret("next", Ok, <<list[started.idx + 1]>>, NoArgs)
              ELSE /\ gen' = [NoGen EXCEPT !.st = "done"]
                   /\ ret' = Ret("next", Error("StopIteration", <<>>), <<>>, NoArgs)
    /\ UNCHANGED <<config, options, round, aggregator, simulator, scorer>>

\* RankingSelector._dispense, run to its end: `yield from self._options`.
Dispensed(retained) == retained

\* mutant: the options are taken out of the list as they are yielded
dispense_all_draining ==
    /\ gathering' = FALSE
    /\ options' = <<>>
    /\ ret' = Ret("dispense_all", Ok, Dispensed(options), NoArgs)
    /\ UNCHANGED <<config, gen, round, aggregator, simulator, scorer>>

\* list(selector.dispense()): the call and the whole iteration, uninterrupted.
dispense_all ==
    /\ gathering' = FALSE
    /\ ret' = Ret("dispense_all", Ok, Dispensed(options), NoArgs)
    /\ UNCHANGED <<config, options, gen, round, aggregator, simulator, scorer>>

\* mutant: the hook starts a new round
update_restarting ==
    /\ gathering' = TRUE
    /\ options' = <<>>
    /\ round' = <<>>
    /\ ret' = Ret("update", Ok, <<>>, NoArgs)
    /\ UNCHANGED <<config, gen, aggregator, simulator, scorer>>

\* Selector.update(database, recipes), inherited by RankingSelector: `pass`,
\* whatever the database and the recipes.
update ==
    /\ ret' = Ret("update", Ok, <<>>, NoArgs)
    /\ UNCHANGED <<config, gathering, options, gen, round, aggregator, simulator, scorer>>

\* ------------------------------------------------------------------ inputs
\* well-formed single-objective batches: 3-D, one value per key
GoodCalls ==
    UNION {{<<k, s>> : k \in [1..n -> Keys], s \in SamplesOf(3, 1, n, Values)} : n \in 0..MaxBatch}

\* one rejected call of each kind: 2-D samples, a key too few, two objectives
BadCalls ==
    {<<<<"a">>, [ndim |-> 2, vals |-> <<<<1>>>>]>>,
     <<<<>>, [ndim |-> 3, vals |-> <<<<1>>>>]>>,
     <<<<"a">>, [ndim |-> 3, vals |-> <<<<1>>, <<2>>>>]>>}

\* samples of every shape; the value of objective i is i for every candidate
ShapeSamples(nd, no, nc) == [ndim |-> nd, vals |-> [i \in 1..no |-> [j \in 1..nc |-> i]]]

ShapeCalls ==
    {<<k, ShapeSamples(d, o, n)>> :
        k \in SeqsUpTo({"a"}, MaxBatch), d \in NDims, o \in 1..MaxObjectives, n \in 0..MaxBatch}

Operations(calls) ==
    \/ start_gathering
    \/ \E c \in calls : add_possibilities(c[1], c[2])
    \/ dispense
    \/ next_pair
    \/ dispense_all

\* RankingSelector driven with batches of any keys and values.
Next == Operations(GoodCalls \cup BadCalls)

Spec == Init /\ [][Next]_vars

\* Selectors with and without multi-objective support driven with samples of any
\* shape, and with the update hook.
NextShape == Operations(ShapeCalls) \/ update

SpecShape == InitShape /\ [][NextShape]_vars

\* ------------------------------------------------------------------ aggregator
\* What recipe.lookup(record) returns: None (<<>>) or a float (<<v>>).
None == <<>>

LookupValues == {None, <<-1>>, <<0>>, <<1>>}

\* A record, as far as the recipes see it: its value for each property.
Records == [Properties -> LookupValues]

\* recipe.lookup(record), for the recipe of a property
lookup(recipe, record) == record[recipe]

\* mutant: the value is tested for truth, so that 0.0 counts as missing
IsNotNone_truthy(value) == value # None /\ value # <<0>>

\* base.py 27: `... is not None`
IsNotNone(value) == value # None

\* base.py 27: all(recipe.lookup(record) is not None for recipe in recipes)
AllLookups(record, rcps) ==
    \A r \in 1..Len(rcps) : IsNotNone(lookup(rcps[r], record))

\* base.py 29: [recipe.lookup(record) for recipe in recipes]
LookupRow(record, rcps) == [r \in 1..Len(rcps) |-> lookup(rcps[r], record)[1]]

\* base.py 25-29: the loop over database.values()
RECURSIVE OutputRows(_, _)
OutputRows(records, rcps) ==
    IF records = <<>> THEN <<>>
    ELSE (IF AllLookups(Head(records), rcps)
          THEN <<LookupRow(Head(records), rcps)>>
          ELSE <<>>) \o OutputRows(Tail(records), rcps)

\* numpy.array(list of rows of equal length): an empty list gives a 1-D array of
\* shape (0,), n rows of length k a 2-D array of shape (n, k).
np_array(rows) ==
    [called |-> TRUE,
     shape |-> IF rows = <<>> THEN <<0>> ELSE <<Len(rows), Len(rows[1])>>,
     rows |-> rows]

\* base.py 15-30
extract_observations(records, rcps) == np_array(OutputRows(records, rcps))

\* the selector of a campaign that only aggregates or simulates
NoSelector ==
    /\ to_select = 0
    /\ maximize = Scalar(TRUE)
    /\ multiobjective = FALSE
    /\ gathering = TRUE
    /\ options = <<>>
    /\ gen = NoGen
    /\ round = <<>>
    /\ ret = Ret("init", Ok, <<>>, NoArgs)

\* any database of up to MaxRecords records and any list of up to MaxRecipes recipes
InitExtract ==
    /\ aggregator \in [database : SeqsUpTo(Records, MaxRecords),
                        recipes : SeqsUpTo(Properties, MaxRecipes),
                        observations : {NoObservations}]
    /\ NoSelector
    /\ scorer = NoScorer
    /\ simulator = NoSimulator

\* the call _extract_observations(database, recipes)
call_extract_observations ==
    /\ ~observations.called
    /\ aggregator' = [aggregator EXCEPT
                        !.observations = extract_observations(database, recipes)]
    /\ UNCHANGED <<selector, simulator, scorer>>

NextExtract == call_extract_observations

SpecExtract == InitExtract /\ [][NextExtract]_vars

\* ------------------------------------------------------------------ simulator
\* A configuration name, split at its underscores.
ConfigNames == {<<"xtb">>, <<"gaussian", "b3lyp", "sto3g">>, <<"gaussian", "b3lyp">>}

\* the number of atoms of the structure given as xyz
AtomCounts == {3, 51}

\* the charges and solvents a configuration is requested for
Charges == {-1, 0, 1}

Solvents == {None, <<"acn">>, <<"water">>}

\* mutant: the cutoffs of the smallest and the largest basis set are exchanged
_cutoff_lookup_exchanged ==
    (<<"TZVP", "GTH">> :> 600) @@ (<<"DZVP", "GTH">> :> 600) @@ (<<"SZV", "GTH">> :> 850)

\* ase/__init__.py 24-28: the cutoff energies in Rydberg; the basis set name
\* "SZV-GTH" is <<"SZV", "GTH">>.
_cutoff_lookup ==
    (<<"TZVP", "GTH">> :> 850) @@ (<<"DZVP", "GTH">> :> 600) @@ (<<"SZV", "GTH">> :> 600)

\* the solvents that _solv_data and _xtb_solv_names have an entry for
_solv_data == {<<"acn">>}

_xtb_solv_names == {<<"acn">>}

\* str.upper, on the name parts in use
upper(part) ==
    CASE part = "szv" -> "SZV" [] part = "dzvp" -> "DZVP" [] part = "tzvp" -> "TZVP"
      [] part = "notreal" -> "NOTREAL" [] part = "blyp" -> "BLYP" [] part = "pm7" -> "PM7"
      [] OTHER -> part

\* What create_configuration does: it returns a dict, returns None, or raises.
ConfigDict(name, use_gaussian_opt, kwargs) ==
    [raises |-> FALSE, error |-> "", returns |-> "dict", name |-> name,
     use_gaussian_opt |-> use_gaussian_opt, kwargs |-> kwargs]

ConfigRaises(error) ==
    [raises |-> TRUE, error |-> error, returns |-> "nothing", name |-> "",
     use_gaussian_opt |-> FALSE, kwargs |-> <<>>]

ConfigNone ==
    [raises |-> FALSE, error |-> "", returns |-> "None", name |-> "",
     use_gaussian_opt |-> FALSE, kwargs |-> <<>>]

\* ase/__init__.py 191: `uks=charge != 0`
uks(charge) == charge # 0

\* ase/__init__.py 107-201: create_configuration. A name is the sequence of its
\* parts between underscores, so name.startswith('mopac_') is "at least two parts,
\* the first one mopac" and name.count("_") is Len(name) - 1; n_atoms is the first
\* line of xyz. There is no branch for a name of no family.
create_configuration(name, n_atoms, charge, solvent) ==
    IF name = <<"xtb">>
    THEN IF solvent # None /\ solvent \notin _xtb_solv_names
         THEN ConfigRaises("ValueError")
         ELSE ConfigDict("xtb", FALSE, [accuracy |-> "0.05", solvent |-> solvent])
    ELSE IF Len(name) >= 2 /\ name[1] = "mopac"
    THEN IF solvent # None /\ solvent \notin _solv_data
         THEN ConfigRaises("ValueError")
         ELSE ConfigDict("mopac", FALSE,
                         [method |-> upper(name[Len(name)]), solvent |-> solvent])
    ELSE IF Len(name) >= 2 /\ name[1] = "gaussian"
    THEN IF Len(name) - 1 # 2
         THEN ConfigRaises("ValueError")
         ELSE ConfigDict("gaussian", n_atoms <= 50,
                         [basis |-> name[3], method |-> name[2], charge |-> charge,
                          mult |-> (IF charge < 0 THEN -charge ELSE charge) + 1,
                          solvent |-> solvent])
    ELSE IF Len(name) >= 2 /\ name[1] = "cp2k" /\ name[2] = "blyp"
    THEN LET basis_set_id == name[Len(name)]
             basis_set_name == <<upper(basis_set_id), "GTH">>
         IN  IF basis_set_name \notin DOMAIN _cutoff_lookup
             THEN ConfigRaises("AssertionError")
             ELSE IF solvent # None /\ solvent \notin _solv_data
             THEN ConfigRaises("AssertionError")
             ELSE ConfigDict("cp2k", FALSE,
                             [charge |-> charge, uks |-> uks(charge),
                              cutoff |-> <<_cutoff_lookup[basis_set_name], "Ry">>,
                              basis_set |-> basis_set_name, solvent |-> solvent])
    ELSE ConfigNone

\* BaseSimulator._make_run_directory: a directory named after the kind of run and
\* a hash of the inputs.
make_run_directory(kind, name, n_atoms) == <<kind, name, n_atoms>>

SimRet(op, run_path, body, outcome, error) ==
    [op |-> op, run_path |-> run_path, body |-> body, outcome |-> outcome, error |-> error]

\* The outcome of the body of the try block.
Returned(succeeded) == [outcome |-> "returned", error |-> "", succeeded |-> succeeded]

Raised(error) == [outcome |-> "raised", error |-> error, succeeded |-> FALSE]

\* ase/__init__.py 302 and 362: the condition of the finally block.
ShouldDelete(succeeded) ==
    (succeeded /\ clean_after_run) \/ (~succeeded /\ ~retain_failed[1])

\* What an operation leaves behind.
After(dir, existing, result) == [cwd |-> dir, dirs |-> existing, simret |-> result]

\* mutant: the process moves back only when the run directory is deleted
RunInDirectory_stays(op, run_path, body) ==
    IF cwd = Gone
    THEN After(cwd, dirs \cup {run_path},
               SimRet(op, run_path, "none", "raised", "FileNotFoundError"))
    ELSE LET old_path == cwd
             made == dirs \cup {run_path}
         IN  IF ~body.succeeded /\ retain_failed = <<>>
             THEN After(run_path, made,
                        SimRet(op, run_path, body.outcome, "raised", "AttributeError"))
             ELSE IF ShouldDelete(body.succeeded)
             THEN After(old_path, made \ {run_path},
                        SimRet(op, run_path, body.outcome, body.outcome, body.error))
             ELSE After(run_path, made,
                        SimRet(op, run_path, body.outcome, body.outcome, body.error))

\* ase/__init__.py 213-220 and 300-307 (optimize_structure), 330-340 and 361-366
\* (compute_energy): the run directory is made, the process moves into it, the body
\* runs, and the finally block deletes the directory or not and moves back.
RunInDirectory(op, run_path, body) ==
    IF cwd = Gone
    THEN \* Path.cwd() raises
         After(cwd, dirs \cup {run_path},
               SimRet(op, run_path, "none", "raised", "FileNotFoundError"))
    ELSE LET old_path == cwd
             made == dirs \cup {run_path}
         IN  IF ~body.succeeded /\ retain_failed = <<>>
             THEN \* self.retain_failed raises in the finally block
                  After(run_path, made,
                        SimRet(op, run_path, body.outcome, "raised", "AttributeError"))
             ELSE IF ShouldDelete(body.succeeded)
             THEN IF old_path = run_path
                  THEN \* the last os.chdir(old_path) finds no directory
                       After(Gone, made \ {run_path},
                             SimRet(op, run_path, body.outcome, "raised", "FileNotFoundError"))
                  ELSE After(old_path, made \ {run_path},
                             SimRet(op, run_path, body.outcome, body.outcome, body.error))
             ELSE After(old_path, made,
                        SimRet(op, run_path, body.outcome, body.outcome, body.error))

\* create_configuration raises, before any directory is made
ConfigurationError(op) ==
    After(cwd, dirs, SimRet(op, NoPath, "none", "raised", "ValueError"))

\* the simulator after an operation
Leave(after) ==
    [simulator EXCEPT !.cwd = after.cwd, !.dirs = after.dirs, !.simret = after.simret]

\* A structure: its positions, one number in units of 1e-6, and its formula.
Positions == {0, 4, 10}

Structures == [positions : Positions, formula : {"H2O"}]

\* positions.round(5): to the nearest multiple of 1e-5, halves to the even one
round5(p) ==
    LET q == p \div 10
        r == p % 10
    IN  IF r < 5 \/ (r = 5 /\ q % 2 = 0) THEN 10 * q ELSE 10 * (q + 1)

\* ase/__init__.py 381-385: the hash of the rounded positions and the formula
atoms_hash(atoms) == <<round5(atoms.positions), atoms.formula>>

\* str(solvent)
str(solvent) == IF solvent = None THEN "None" ELSE solvent[1]

\* the key-value pairs of a row (lines 388, 391)
Row(atoms, config_name, charge, solvent) ==
    [atoms_hash |-> atoms_hash(atoms), config_name |-> config_name,
     total_charge |-> charge, solvent |-> str(solvent)]

\* ase/__init__.py 379-391: update_database, from the rows the database holds to
\* the rows it holds afterwards; db.count sees the rows written earlier in the call.
RECURSIVE update_database(_, _, _, _, _)
update_database(rows, atoms_to_write, config_name, charge, solvent) ==
    IF atoms_to_write = <<>> THEN rows
    ELSE LET row == Row(Head(atoms_to_write), config_name, charge, solvent)
         IN  update_database(IF CopiesIn(row, rows) > 0 THEN rows
                             ELSE rows (+) SetToBag({row}),
                             Tail(atoms_to_write), config_name, charge, solvent)

\* the structure compute_energy is given
InputAtoms == [positions |-> 0, formula |-> "H2O"]

\* ASESimulator.optimize_structure; crash: the calculation raises; traj: the frames
\* of the optimization, the last one being the optimized structure.
optimize_structure(name, n_atoms, crash, traj) ==
    LET calc_cfg == create_configuration(name, n_atoms, 0, None)
        gaussian_opt == calc_cfg.name = "gaussian" /\ calc_cfg.use_gaussian_opt
        body == IF crash THEN Raised("CalculationError")
                ELSE IF gaussian_opt
                THEN Returned(FALSE)   \* the return of line 254
                ELSE Returned(TRUE)    \* lines 296-298
        atoms == traj[Len(traj)]
        \* lines 276-278, reached by the ASE optimizer only
        stored == IF ~calc_cfg.raises /\ cwd # Gone /\ ~crash /\ ~gaussian_opt
                     /\ ase_db_path # None
                  THEN update_database(update_database(db, <<atoms>>, name, 0, None),
                                       traj, name, 0, None)
                  ELSE db
    IN  /\ simulator' = [Leave(IF calc_cfg.raises
                               THEN ConfigurationError("optimize_structure")
                               ELSE RunInDirectory("optimize_structure",
                                         make_run_directory("opt", name, n_atoms), body))
                         EXCEPT !.db = stored, !.traj_lst = traj]
        /\ UNCHANGED <<selector, aggregator, scorer>>

\* ASESimulator.compute_energy; crash: the calculation raises.
compute_energy(name, n_atoms, crash) ==
    LET calc_cfg == create_configuration(name, n_atoms, 0, None)
        body == IF crash THEN Raised("CalculationError")
                ELSE Returned(FALSE)   \* line 359: succeeded is still False
        \* lines 353-354
        stored == IF ~calc_cfg.raises /\ cwd # Gone /\ ~crash /\ ase_db_path # None
                  THEN update_database(db, <<InputAtoms>>, name, 0, None)
                  ELSE db
    IN  /\ simulator' = [Leave(IF calc_cfg.raises
                               THEN ConfigurationError("compute_energy")
                               ELSE RunInDirectory("compute_energy",
                                         make_run_directory("single", name, n_atoms), body))
                         EXCEPT !.db = stored]
        /\ UNCHANGED <<selector, aggregator, scorer>>

\* ASESimulator(clean_after_run=..., retain_failed=...): __init__ stores
\* clean_after_run and does not store its retain_failed argument; whether
\* BaseSimulator.__init__(scratch_dir) gives the instance a retain_failed
\* attribute, and which, is left open.
InitASE ==
    /\ simulator \in [clean_after_run : BOOLEAN,
                      retain_failed_arg : BOOLEAN,
                      retain_failed : {<<>>, <<TRUE>>, <<FALSE>>},
                      ase_db_path : {None}, db : {EmptyBag}, traj_lst : {<<>>},
                      cwd : {StartDir}, dirs : {{}}, simret : {NoRun}]
    /\ NoSelector
    /\ scorer = NoScorer
    /\ aggregator = NoAggregator

NextASE ==
    \/ \E name \in ConfigNames, n_atoms \in AtomCounts, crash \in BOOLEAN :
            optimize_structure(name, n_atoms, crash, <<InputAtoms>>)
    \/ \E name \in ConfigNames, n_atoms \in AtomCounts, crash \in BOOLEAN :
            compute_energy(name, n_atoms, crash)

SpecASE == InitASE /\ [][NextASE]_vars

\* BaseSimulator.__init__, taken to give the instance a retain_failed attribute, as
\* the finally blocks (lines 302 and 362) presuppose.
InitBase == InitASE /\ retain_failed # <<>>

SpecBase == InitBase /\ [][NextASE]_vars

\* the trajectories of an optimization: one frame or more
Trajectories == UNION {[1..n -> Structures] : n \in 1..MaxFrames}

\* sim.update_database(atoms_to_write, 'xtb', charge, solvent), called on its own.
call_update_database(atoms_to_write, charge, solvent) ==
    /\ ase_db_path # None
    /\ simulator' = [simulator EXCEPT
            !.db = update_database(db, atoms_to_write, <<"xtb">>, charge, solvent),
            !.simret = SimRet("update_database", NoPath, "none", "returned", "")]
    /\ UNCHANGED <<selector, aggregator, scorer>>

\* ASESimulator(scratch_dir=..., ase_db_path=...), as the test constructs it.
InitDB ==
    /\ simulator \in {[NoSimulator EXCEPT !.ase_db_path = <<"data.db">>, !.retain_failed = r] :
                        r \in {<<>>, <<TRUE>>, <<FALSE>>}}
    /\ NoSelector
    /\ scorer = NoScorer
    /\ aggregator = NoAggregator

\* Optimizations with the ASE optimizer (xtb) and with Gaussian's own, and direct
\* calls of update_database for a neutral molecule, a cation and a solvated one.
NextDB ==
    \/ \E atoms_to_write \in Trajectories \cup {<<>>},
          molecule \in {<<0, None>>, <<1, None>>, <<0, <<"acn">>>>} :
            call_update_database(atoms_to_write, molecule[1], molecule[2])
    \/ \E name \in {<<"xtb">>, <<"gaussian", "b3lyp", "sto3g">>}, crash \in BOOLEAN,
          traj \in Trajectories :
            optimize_structure(name, 3, crash, traj)

SpecDB == InitDB /\ [][NextDB]_vars

\* The names create_configuration is asked for: every family, well formed and
\* not, and names of no family.
AllConfigNames ==
    ConfigNames \cup
    {<<"gaussian">>, <<"mopac", "pm7">>, <<"mopac">>,
     <<"cp2k", "blyp", "szv">>, <<"cp2k", "blyp", "dzvp">>, <<"cp2k", "blyp", "tzvp">>,
     <<"cp2k", "blyp", "SZV">>, <<"cp2k", "blyp", "notreal">>, <<"cp2k", "blyp">>,
     <<"cp2k">>, <<"orca", "b3lyp">>, <<"psi4">>}

\* sim.create_configuration(name, xyz, charge, solvent), called on its own: the
\* arguments and what came of them.
call_create_configuration(name, n_atoms, charge, solvent) ==
    LET cfg == create_configuration(name, n_atoms, charge, solvent)
    IN  /\ simulator' = [simulator EXCEPT !.simret =
                [op |-> "create_configuration", run_path |-> NoPath, body |-> "none",
                 outcome |-> IF cfg.raises THEN "raised" ELSE "returned",
                 error |-> cfg.error,
                 args |-> [name |-> name, n_atoms |-> n_atoms, charge |-> charge,
                           solvent |-> solvent],
                 config |-> cfg]]
        /\ UNCHANGED <<selector, aggregator, scorer>>

InitConfig ==
    /\ simulator = NoSimulator
    /\ NoSelector
    /\ scorer = NoScorer
    /\ aggregator = NoAggregator

NextConfig ==
    \E name \in AllConfigNames, n_atoms \in AtomCounts, charge \in Charges, solvent \in Solvents :
        call_create_configuration(name, n_atoms, charge, solvent)

SpecConfig == InitConfig /\ [][NextConfig]_vars

\* ------------------------------------------------------------------ scorer
\* sklearn's train_test_split(inputs, outputs, test_size=validation_split) for a
\* fraction given in percent: the test set takes ceil(fraction * n) entries, the
\* training set the rest; an empty training set is a ValueError.
train_test_split(n_inputs, validation_split) ==
    LET n_test == (validation_split * n_inputs + 99) \div 100
        n_train == n_inputs - n_test
    IN  [raises |-> n_inputs = 0 \/ n_train = 0, train_x |-> n_train, valid_x |-> n_test]

\* mutant: a validation set too small for one batch is accepted
HasValidationData_any(valid_steps) == valid_steps >= 0

\* nfp.py 343: `assert valid_steps > 0`
HasValidationData(valid_steps) == valid_steps > 0

\* What a call of retrain comes to.
Retrained(error, fit, weights, valid_x, valid_steps) ==
    [called |-> TRUE, error |-> error, fit |-> fit, weights |-> weights,
     valid_x |-> valid_x, valid_steps |-> valid_steps]

\* nfp.py 296-413: NFPScorer.retrain, for inputs of a given length; nan: the
\* training leaves a NaN among the weights.
retrain(model_msg, n_inputs, batch_size, validation_split, nan) ==
    IF model_msg \notin {"NFPMessage", "dict"}
    THEN Retrained("NotImplementedError", FALSE, FALSE, 0, 0)
    ELSE LET split == train_test_split(n_inputs, validation_split)
         IN  IF split.raises THEN Retrained("ValueError", FALSE, FALSE, 0, 0)
             ELSE IF batch_size = 0
             THEN Retrained("ZeroDivisionError", FALSE, FALSE, split.valid_x, 0)
             ELSE LET valid_steps == split.valid_x \div batch_size
                  IN  IF ~HasValidationData(valid_steps)
                      THEN Retrained("AssertionError", FALSE, FALSE, split.valid_x, valid_steps)
                      ELSE IF nan
                      THEN Retrained("ValueError", TRUE, FALSE, split.valid_x, valid_steps)
                      ELSE Retrained("", TRUE, TRUE, split.valid_x, valid_steps)

\* the largest training set and the largest batch size
MaxInputs == 6

MaxBatchSize == 3

\* the arguments of one call of retrain
InitRetrain ==
    /\ scorer \in [model_msg : {"NFPMessage", "dict", "str"}, inputs : 0..MaxInputs,
                   batch_size : 0..MaxBatchSize, validation_split : {10, 50},
                   nan : BOOLEAN, retrained : {NoRetrain},
                   graph : {NoGraph}, mol_dict : {NoDict}]
    /\ NoSelector
    /\ aggregator = NoAggregator
    /\ simulator = NoSimulator

\* the call scorer.retrain(model_msg, inputs, outputs, batch_size=..., validation_split=...)
call_retrain ==
    /\ ~scorer.retrained.called
    /\ scorer' = [scorer EXCEPT !.retrained =
            retrain(scorer.model_msg, scorer.inputs, scorer.batch_size,
                    scorer.validation_split, scorer.nan)]
    /\ UNCHANGED <<selector, aggregator, simulator>>

NextRetrain == call_retrain

SpecRetrain == InitRetrain /\ [][NextRetrain]_vars

\* ------------------------------------------------------------------ molecule dictionaries
\* the most atoms of a molecule, and the most bonds added to its graph
MaxAtoms == 4

MaxBonds == 3

\* what str(d['bond_type']) can be for the bond types the code knows
BondTypeNames == {"AROMATIC", "DOUBLE", "SINGLE", "TRIPLE"}

\* nfp.py 165: 0 is a dummy type
bond_types == <<"", "AROMATIC", "DOUBLE", "SINGLE", "TRIPLE">>

\* nfp.py 173: bond_types.index, counted from 0 as Python does
bond_types_index(name) == (CHOOSE i \in 1..Len(bond_types) : bond_types[i] = name) - 1

\* The atomic numbers of a molecule of n atoms: carbons, the last atom a carbon or
\* a hydrogen.
NodeLists(n) == {[i \in 1..n |-> IF i > h THEN 1 ELSE 6] : h \in {n - 1, n} \ {0}}

\* the pairs of atoms the bonds bs join
Bonded(bs) == {<<bs[i][1], bs[i][2]>> : i \in 1..Len(bs)}

\* The bonds <<a, b, type>> between n atoms in the order they were added to the
\* graph, at most len of them: atoms are numbered from 0, no bond joins an atom
\* with itself, no pair of atoms is bonded twice.
RECURSIVE BondLists(_, _)
BondLists(n, len) ==
    IF len = 0 THEN {<<>>}
    ELSE LET shorter == BondLists(n, len - 1)
         IN  shorter \cup
             UNION {{Append(bs, <<p[1], p[2], t>>) :
                        p \in {q \in (0..(n - 1)) \X (0..(n - 1)) : q[1] < q[2]} \ Bonded(bs),
                        t \in BondTypeNames} :
                    bs \in {s \in shorter : Len(s) = len - 1}}

\* nfp.py 159: the graphs convert_string_to_nx can return. The nodes are the atoms
\* 0 .. n-1 in this order, which is what line 186 takes the last atom's index from.
Graphs ==
    UNION {{[nodes |-> ns, bonds |-> bs] : ns \in NodeLists(n), bs \in BondLists(n, MaxBonds)} :
           n \in 1..MaxAtoms}

\* nfp.py 168: networkx's graph.edges(data=True) of an undirected graph. It visits
\* the nodes in insertion order and each node's neighbours in the order their
\* edges were added, and reports (node, neighbour, data) unless the neighbour was
\* visited before: the edges of atom 0 first, then those of atom 1, ...
RECURSIVE EdgesFrom(_, _)
EdgesFrom(bs, a) ==
    IF bs = <<>> THEN <<>>
    ELSE (IF Head(bs)[1] = a THEN <<Head(bs)>> ELSE <<>>) \o EdgesFrom(Tail(bs), a)

RECURSIVE EdgesUpTo(_, _)
EdgesUpTo(bs, a) ==
    IF a < 0 THEN <<>> ELSE EdgesUpTo(bs, a - 1) \o EdgesFrom(bs, a)

edges(graph) == EdgesUpTo(graph.bonds, Len(graph.nodes) - 1)

\* nfp.py 166-172: each edge goes into the lists twice, once per direction
RECURSIVE BothDirections(_)
BothDirections(es) ==
    IF es = <<>> THEN <<>>
    ELSE <<[pair |-> <<Head(es)[1], Head(es)[2]>>, type |-> Head(es)[3]],
           [pair |-> <<Head(es)[2], Head(es)[1]>>, type |-> Head(es)[3]]>>
         \o BothDirections(Tail(es))

\* row r comes before row s in the order of both columns
LexLess(r, s) == r[1] < s[1] \/ (r[1] = s[1] /\ r[2] < s[2])

\* nfp.py 181: numpy.lexsort((connectivity[:, 1], connectivity[:, 0])): the indices
\* that sort the rows by the first column, then by the second; equal rows keep
\* their order. Indices count from 1 here.
lexsort(rows) ==
    [k \in 1..Len(rows) |->
        CHOOSE i \in 1..Len(rows) :
            Cardinality({j \in 1..Len(rows) :
                LexLess(rows[j], rows[i]) \/ (rows[j] = rows[i] /\ j < i)}) = k - 1]

\* connectivity.max()
ArrayMax(rows) ==
    CHOOSE m \in {rows[i][c] : i \in 1..Len(rows), c \in 1..2} :
        \A i \in 1..Len(rows), c \in 1..2 : rows[i][c] <= m

\* What a call of convert_string_to_dict comes to.
MolDict(error, atom, bond, shape, rows) ==
    [called |-> TRUE, error |-> error, atom |-> atom, bond |-> bond,
     connectivity |-> [shape |-> shape, rows |-> rows]]

\* nfp.py 149-195: convert_string_to_dict, from the graph of line 159 on. The
\* connectivity rows are put in the order of inds (line 182); edge_type_id is
\* returned as line 173 made it.
convert_string_to_dict(graph) ==
    LET atom_type_id == graph.nodes
        both == BothDirections(edges(graph))
        connectivity == [i \in 1..Len(both) |-> both[i].pair]
        edge_type_id == [i \in 1..Len(both) |-> bond_types_index(both[i].type)]
    IN  IF connectivity # <<>>
        THEN LET inds == lexsort(connectivity)
                 sorted == [k \in 1..Len(connectivity) |-> connectivity[inds[k]]]
             IN  IF ArrayMax(sorted) # Len(atom_type_id) - 1
                 THEN MolDict("ValueError", <<>>, <<>>, <<>>, <<>>)
                 ELSE MolDict("", atom_type_id, edge_type_id, <<Len(sorted), 2>>, sorted)
        ELSE MolDict("", atom_type_id, edge_type_id, <<0, 2>>, <<>>)

\* the graph of one molecule
InitDict ==
    /\ scorer \in {[NoScorer EXCEPT !.graph = g] : g \in Graphs}
    /\ NoSelector
    /\ aggregator = NoAggregator
    /\ simulator = NoSimulator

\* the call convert_string_to_dict(mol_string)
call_convert_string_to_dict ==
    /\ ~scorer.mol_dict.called
    /\ scorer' = [scorer EXCEPT !.mol_dict = convert_string_to_dict(scorer.graph)]
    /\ UNCHANGED <<selector, aggregator, simulator>>

NextDict == call_convert_string_to_dict

SpecDict == InitDict /\ [][NextDict]_vars

\* ------------------------------------------------------------------ claims
Pair(c) == [key |-> c.key, score |-> c.score]

\* the candidates of the round as (key, score) pairs
RoundPairs == [i \in 1..Len(round) |-> Pair(round[i])]

DistinctScores(s) == \A i, j \in 1..Len(s) : i # j => s[i].score # s[j].score

Count(s, x) == Cardinality({i \in 1..Len(s) : s[i] = x})

\* ret holds what an uninterrupted dispense() yielded
Yielded == ret.op = "dispense_all"

\* The reference selector: it receives all the candidates at once and takes the
\* highest score, K times.
RECURSIVE TakeHighest(_, _)
TakeHighest(K, S) ==
    IF K = 0 \/ S = {} THEN <<>>
    ELSE LET m == CHOOSE x \in S : \A y \in S : y.score <= x.score
         IN  <<m>> \o TakeHighest(K - 1, S \ {m})

\* C1: bounded retention. When the batches of a round supplied N > to_select
\* candidates with pairwise distinct scores, dispense() yields exactly to_select
\* pairs, all of them candidates of the round, and every yielded score is >= the
\* score of every candidate of the round that is not yielded.
C1_BoundedRetention ==
    (Yielded /\ Len(round) > to_select /\ DistinctScores(round)) =>
        /\ Len(ret.out) = to_select
        /\ Range(ret.out) \subseteq Range(RoundPairs)
        /\ \A p \in Range(ret.out) : \A c \in Range(RoundPairs) \ Range(ret.out) :
                p.score >= c.score

C1_Witness ==
    /\ Yielded /\ to_select = 2 /\ Len(round) = 3 /\ DistinctScores(round)
    /\ Len(ret.out) = 2
    /\ Pair(round[1]) \notin Range(ret.out)

\* C2: batch-split independence. For candidates with pairwise distinct scores the
\* sequence dispensed after gathering them in any batches equals the sequence of
\* the reference selector that gets them in one batch and keeps the to_select
\* highest.
C2_BatchSplitIndependence ==
    (Yielded /\ DistinctScores(round)) =>
        ret.out = TakeHighest(to_select, Range(RoundPairs))

\* as in the example a:10, then b:20 and c:5, with to_select = 2
C2_Witness ==
    /\ Yielded /\ to_select = 2 /\ Len(round) = 3
    /\ round[2].score > round[1].score /\ round[1].score > round[3].score
    /\ ret.out = <<Pair(round[2]), Pair(round[1])>>

\* the arguments of a call that add_possibilities has no reason to reject
ValidArgs(args) ==
    /\ args.ndim = 3
    /\ args.ncand = args.nkeys
    /\ args.nobj = 1 \/ multiobjective
    /\ maximize.scalar \/ Len(maximize.flags) = args.nobj

\* C3: round isolation. Once dispense() has been called, a following valid
\* add_possibilities does not fail, leaves the selector in GATHERING, and starts a
\* new round: the candidates of the round are those of this batch alone, so nothing
\* retained before it can be yielded by the next dispense().
C3_RoundIsolation ==
    [][(/\ ret.op \in {"dispense", "dispense_all"}
        /\ ret'.op = "add_possibilities"
        /\ ValidArgs(ret'.args))
       => (/\ ret'.err = Ok
           /\ gathering'
           /\ Len(round') = ret'.args.ncand
           /\ Len(options') <= ret'.args.ncand)]_vars

\* C4: atomic validate-then-mutate. An add_possibilities call that fails leaves
\* the gathering flag and the retained options as they were before the call.
C4_FailedCallChangesNothing ==
    [][(ret'.op = "add_possibilities" /\ ret'.err # Ok)
       => (gathering' = gathering /\ options' = options)]_vars

\* C5: phase flag protocol. gathering is false once dispense() has been called,
\* true after start_gathering and after a successful add_possibilities, and it
\* changes at no other time.
C5_PhaseFlagProtocol ==
    [][/\ ret'.op \in {"dispense", "dispense_all"} => ~gathering'
       /\ ret'.op = "start_gathering" => gathering'
       /\ (ret'.op = "add_possibilities" /\ ret'.err = Ok) => gathering'
       /\ ret'.op = "next" => gathering' = gathering]_vars

SortedDesc(s) == \A i \in 1..(Len(s) - 1) : s[i].score >= s[i + 1].score

\* C6: dispense order. In every reachable state the retained list is sorted by
\* score, highest first, and an uninterrupted dispense() yields exactly that list,
\* in its stored order.
C6_DispenseOrder ==
    /\ SortedDesc(options)
    /\ Yielded => (ret.out = options /\ SortedDesc(ret.out))

\* the later candidate has the higher score, and is dispensed first
C6_Witness ==
    /\ Yielded /\ Len(round) = 2 /\ round[1].score < round[2].score
    /\ ret.out = <<Pair(round[2]), Pair(round[1])>>

\* C7: fewer than the target. When the round supplied N < to_select candidates,
\* dispense() raises nothing and yields exactly N pairs, one per candidate supplied.
C7_FewerThanTarget ==
    (Yielded /\ Len(round) < to_select) =>
        /\ ret.err = Ok
        /\ Len(ret.out) = Len(round)
        /\ \A p \in Range(RoundPairs) : Count(ret.out, p) = Count(RoundPairs, p)

C7_Witness ==
    /\ Yielded /\ to_select = 3 /\ Len(round) = 2 /\ Len(ret.out) = 2
    /\ round[1].key = round[2].key

\* the sign of objective i under the maximize setting of the selector
SignOf(i) ==
    IF maximize.scalar
    THEN (IF maximize.flags[1] THEN 1 ELSE -1)
    ELSE (IF maximize.flags[i] THEN 1 ELSE -1)

RECURSIVE SignedSum(_, _)
SignedSum(raw, i) ==
    IF i = 0 THEN 0 ELSE SignOf(i) * raw[i] + SignedSum(raw, i - 1)

\* the candidates of a single-objective round, each with its raw value times the sign
SignedRaw == [i \in 1..Len(round) |-> [key |-> round[i].key, score |-> SignOf(1) * round[i].raw[1]]]

\* C8: maximize / minimize. The score of a candidate is its raw value where the
\* objective is maximized and the negated raw value where it is minimized (exactly
\* the objectives whose flag is false are negated).  A single-objective selector
\* dispenses min(to_select, N) of the candidates, each with that score, best score
\* first: the highest raw values, highest first, when maximizing, the lowest raw
\* values, lowest first, when minimizing; no candidate left out has a better score.
C8_MaximizeMinimize ==
    /\ \A i \in 1..Len(round) : round[i].score = SignedSum(round[i].raw, Len(round[i].raw))
    /\ (Yielded /\ \A i \in 1..Len(round) : Len(round[i].raw) = 1) =>
        /\ Len(ret.out) = Min(to_select, Len(round))
        /\ SortedDesc(ret.out)
        /\ \A p \in Range(ret.out) : Count(ret.out, p) <= Count(SignedRaw, p)
        /\ \A c \in Range(SignedRaw) : Count(ret.out, c) < Count(SignedRaw, c) =>
                \A p \in Range(ret.out) : p.score >= c.score

\* minimizing: the two lowest of three raw values, lowest first, scores negated
C8_Witness ==
    /\ Yielded /\ to_select = 2 /\ Len(round) = 3
    /\ maximize = Scalar(FALSE)
    /\ round[1].raw = <<3>> /\ round[2].raw = <<1>> /\ round[3].raw = <<2>>
    /\ ret.out = <<[key |-> round[2].key, score |-> -1], [key |-> round[3].key, score |-> -2]>>

\* C9: shape validation. add_possibilities with samples that are not 3-dimensional
\* fails with the shape error, which cites the 3 expected dimensions and the
\* actual number, whatever the other arguments, the class and the phase.
C9_ShapeValidation ==
    (ret.op = "add_possibilities" /\ ret.args.ndim # 3) =>
        ret.err = Error("ShapeError", <<3, ret.args.ndim>>)

\* C10: multi-objective gate. With 3-D samples of more than one objective, a
\* selector without multi-objective support fails with the objective-count error
\* citing the number of objectives; the error is never raised for one objective,
\* nor by a selector that declares multi-objective support.
C10_MultiObjectiveGate ==
    ret.op = "add_possibilities" =>
        /\ (ret.args.ndim = 3 /\ ret.args.nobj > 1 /\ ~multiobjective) =>
                ret.err = Error("ObjectiveCountError", <<ret.args.nobj>>)
        /\ (ret.args.nobj = 1 \/ multiobjective) => ret.err.kind # "ObjectiveCountError"

C10_Witness ==
    /\ ret.op = "add_possibilities" /\ ret.args.ndim = 3 /\ ret.args.nobj = 2
    /\ ~multiobjective
    /\ ret.err.kind = "ObjectiveCountError"

\* the arguments pass the checks made before the key count is looked at
PassesEarlierChecks(args) == args.ndim = 3 /\ (args.nobj = 1 \/ multiobjective)

\* C11 as stated: whatever the samples, a call whose key count n differs from the
\* axis-1 size m of the samples fails with the key-count-mismatch error citing n
\* and m.
C11_AnySamples ==
    (ret.op = "add_possibilities" /\ ret.args.ncand # ret.args.nkeys) =>
        ret.err = Error("KeyCountMismatchError", <<ret.args.nkeys, ret.args.ncand>>)

\* C11: key/sample alignment. A call whose key count n differs from the axis-1
\* size m of the samples always fails and changes neither the retained options nor
\* the candidates of the round; when the samples are 3-dimensional and their
\* number of objectives is accepted by the selector, the error is the
\* key-count-mismatch error citing n and m.
C11_KeyAlignment ==
    [][(ret'.op = "add_possibilities" /\ ret'.args.ncand # ret'.args.nkeys)
       => (/\ ret'.err # Ok
           /\ options' = options /\ round' = round
           /\ PassesEarlierChecks(ret'.args) =>
                ret'.err = Error("KeyCountMismatchError", <<ret'.args.nkeys, ret'.args.ncand>>))]_vars

\* two samples for one key, after a candidate had been retained
C11_Witness ==
    /\ ret.op = "add_possibilities"
    /\ ret.args.nkeys = 1 /\ ret.args.ncand = 2 /\ ret.args.ndim = 3
    /\ ret.err = Error("KeyCountMismatchError", <<1, 2>>)
    /\ Len(options) = 1

\* the arguments pass every check of Selector.add_possibilities
PassesBaseChecks(args) == PassesEarlierChecks(args) /\ args.ncand = args.nkeys

\* C12 as stated: with a maximize sequence, every call whose number of objectives
\* differs from the length of the sequence fails with the error naming both lengths.
C12_AnyCall ==
    (ret.op = "add_possibilities" /\ ~maximize.scalar
        /\ ret.args.nobj # Len(maximize.flags)) =>
        ret.err = Error("MaximizeLengthError", <<ret.args.nobj, Len(maximize.flags)>>)

\* C12: maximize-flag length. With a maximize sequence, a call whose number of
\* objectives differs from the length of the sequence fails and merges nothing
\* (the retained options and the round stay as they were or are emptied, nothing is
\* added); when the call passes the checks of Selector.add_possibilities the error
\* is the one naming both lengths.  With a single boolean that error is never
\* raised.
C12_MaximizeLength ==
    [][ret'.op = "add_possibilities"
       => (/\ (~maximize.scalar /\ ret'.args.nobj # Len(maximize.flags)) =>
                /\ ret'.err # Ok
                /\ options' \in {options, <<>>} /\ round' \in {round, <<>>}
                /\ PassesBaseChecks(ret'.args) =>
                      ret'.err = Error("MaximizeLengthError",
                                       <<ret'.args.nobj, Len(maximize.flags)>>)
           /\ maximize.scalar => ret'.err.kind # "MaximizeLengthError")]_vars

\* one objective against two flags
C12_Witness ==
    /\ ret.op = "add_possibilities" /\ maximize = Flags(<<TRUE, FALSE>>)
    /\ ret.args.nobj = 1 /\ ret.args.ncand = 1
    /\ ret.err = Error("MaximizeLengthError", <<1, 2>>)

\* C13: start_gathering reset. From any state start_gathering() raises nothing and
\* leads to GATHERING with no retained option; a dispense() consumed right after it
\* yields nothing; and a second start_gathering() right after the first changes
\* nothing at all.
C13_StartGatheringReset ==
    [][/\ ret'.op = "start_gathering" =>
            (ret'.err = Ok /\ gathering' /\ options' = <<>>)
       /\ (ret.op = "start_gathering" /\ ret'.op = "dispense_all") => ret'.out = <<>>
       /\ ret.op = "start_gathering" => ~ENABLED (start_gathering /\ vars' # vars)]_vars

\* start_gathering() in DISPENSING: the generator that had yielded an option of
\* the list is still running, and the list is empty now
C13_Witness ==
    /\ ret.op = "start_gathering"
    /\ gen.st = "running" /\ gen.alias /\ gen.idx >= 1
    /\ gathering /\ options = <<>>

\* C14: repeated dispense. Calling dispense() and consuming its sequence, in one
\* go or pair by pair, leaves the retained options as they were; and right after a
\* dispense() that was consumed to its end, a second one cannot yield a sequence
\* that differs from the first.
C14_RepeatedDispense ==
    [][/\ ret'.op \in {"dispense", "next", "dispense_all"} => options' = options
       /\ Yielded => ~ENABLED (dispense_all /\ ret'.out # ret.out)]_vars

\* two options dispensed, after an earlier generator had been consumed to its end
C14_Witness ==
    /\ Yielded /\ Len(ret.out) = 2 /\ options = ret.out
    /\ gen.st = "done"

\* the candidates of the round, other than i, that score at least as high as i
Rivals(i) == {j \in 1..Len(round) \ {i} : round[j].score >= round[i].score}

KeyCount(s, key) == Cardinality({n \in 1..Len(s) : s[n].key = key})

\* C15: duplicate keys are independent options. dispense() yields
\* min(to_select, N) of the N candidates of the round, none more often than it was
\* supplied, and every candidate with fewer than to_select rivals is yielded with
\* its own score as many times as it was supplied, whatever its key; so, with
\* pairwise distinct scores, a key is yielded once for each of its occurrences
\* that is among the to_select best of the round.
C15_DuplicateKeys ==
    Yielded =>
        /\ Len(ret.out) = Min(to_select, Len(round))
        /\ \A p \in Range(ret.out) : Count(ret.out, p) <= Count(RoundPairs, p)
        /\ \A i \in 1..Len(round) : Cardinality(Rivals(i)) < to_select =>
                Count(ret.out, Pair(round[i])) = Count(RoundPairs, Pair(round[i]))
        /\ DistinctScores(round) => \A key \in Keys :
                KeyCount(ret.out, key) =
                    Cardinality({i \in 1..Len(round) :
                        round[i].key = key /\ Cardinality(Rivals(i)) < to_select})

\* key a supplied three times, in two batches; its two best occurrences are
\* yielded, each with its own score
C15_Witness ==
    /\ Yielded /\ to_select = 2 /\ Len(round) = 3
    /\ \A i \in 1..3 : round[i].key = "a"
    /\ DistinctScores(round)
    /\ KeyCount(ret.out, "a") = 2 /\ ret.out[1].score > ret.out[2].score

\* the indices of the records that have a value for every recipe
Qualifying ==
    {i \in 1..Len(database) :
        \A r \in 1..Len(recipes) : database[i][recipes[r]] # None}

\* C17: score aggregator rows. _extract_observations returns one row per record
\* whose lookups are all different from None (0 and negative values are values),
\* none for the other records; the rows are in the order of the database and each
\* row holds the values of its record in the order of the recipes.
C17_AggregatorRows ==
    observations.called =>
        /\ Len(observations.rows) = Cardinality(Qualifying)
        /\ \A i \in Qualifying :
                observations.rows[Cardinality({j \in Qualifying : j <= i})] =
                    [r \in 1..Len(recipes) |-> database[i][recipes[r]][1]]

\* the first record lacks q, the second has q = 0 and p = -1: one row, (0, -1)
C17_Witness ==
    /\ observations.called
    /\ recipes = <<"q", "p">>
    /\ Len(database) = 2
    /\ database[1]["q"] = None /\ database[1]["p"] = <<1>>
    /\ database[2]["q"] = <<0>> /\ database[2]["p"] = <<-1>>
    /\ observations.rows = <<<<0, -1>>>>

\* C18: empty aggregation. When no record has a value for every recipe, the empty
\* database included, _extract_observations returns an array of shape
\* (0, number of recipes).
C18_EmptyAggregation ==
    (observations.called /\ Qualifying = {}) =>
        observations.shape = <<0, Len(recipes)>>

\* C19: the default update hook is a no-op. update(database, recipes) raises
\* nothing and leaves the gathering flag, to_select and the retained options as
\* they were, in GATHERING and in DISPENSING.
C19_UpdateNoOp ==
    [][ret'.op = "update" =>
        /\ ret'.err = Ok
        /\ gathering' = gathering
        /\ to_select' = to_select
        /\ options' = options]_vars

\* update() in DISPENSING, with two options retained
C19_Witness ==
    /\ ret.op = "update"
    /\ ~gathering
    /\ Len(options) = 2

\* C20: cleanup after success. When optimize_structure or compute_energy has
\* returned its result, the run directory it made is deleted if clean_after_run is
\* true and is still there if clean_after_run is false.
C20_CleanupAfterSuccess ==
    (simret.op \in {"optimize_structure", "compute_energy"}
        /\ simret.outcome = "returned") =>
        (clean_after_run <=> simret.run_path \notin dirs)

Max(a, b) == IF a >= b THEN a ELSE b

\* C25: bounded size invariant. In every reachable state the retained list holds
\* at most max(to_select, 0) options, and exactly min(to_select, N) of them, N
\* being the number of candidates merged since the list was last emptied; the
\* ranking of the same candidates with a target of 0 or less retains none.
C25_BoundedSize ==
    /\ Len(options) <= Max(to_select, 0)
    /\ Len(options) = Min(to_select, Len(round))
    /\ \A n \in {-1, 0} : nlargest(n, RoundPairs) = <<>>

\* three candidates gathered in two batches, two retained, after a failed call
C25_Witness ==
    /\ ret.op = "add_possibilities" /\ ret.err # Ok
    /\ to_select = 2 /\ Len(round) = 3 /\ Len(options) = 2

\* C27: interleaved dispense and gather. When add_possibilities is called, and
\* reaches the implicit start_gathering, after a dispense() sequence has yielded
\* its first pair: the list the old sequence reads is empty from then on, the round
\* holds the new batch alone, and the next request to the old sequence yields no
\* pair (it ends), leaving the retained options of the new round as they are.
C27_InterleavedDispense ==
    [][ /\ ( /\ gen.st = "running" /\ gen.idx >= 1 /\ ~gathering
             /\ ret'.op = "add_possibilities" /\ ret'.err = Ok )
           => /\ (IF gen'.alias THEN options' ELSE gen'.snap) = <<>>
              /\ Len(round') = ret'.args.ncand
              /\ options' = nlargest(to_select, [j \in 1..Len(round') |-> Pair(round'[j])])
        /\ ( /\ gen.st = "running" /\ gen.idx >= 1
             /\ ret.op = "add_possibilities"
             /\ ret.err.kind \in {"ok", "MaximizeLengthError"}
             /\ ret'.op = "next" )
           => /\ ret'.out = <<>> /\ ret'.err.kind = "StopIteration"
              /\ options' = options /\ round' = round /\ gathering' = gathering
      ]_vars

\* the old sequence has ended on the request that followed a batch of two, both
\* of them retained for the next dispense()
C27_Witness ==
    /\ ret.op = "next" /\ ret.err.kind = "StopIteration"
    /\ gathering /\ gen.st = "done"
    /\ Len(round) = 2 /\ Len(options) = 2

\* the rank of the i-th candidate of the round: one more than the number of
\* candidates that score higher, or score the same and were gathered earlier
StableRank(i) ==
    1 + Cardinality({j \in 1..Len(round) :
            \/ round[j].score > round[i].score
            \/ round[j].score = round[i].score /\ j < i})

\* C28: stable tie-breaking. The retained list, and what dispense() yields, holds
\* each candidate of the round at its stable rank, as far as the rank is within
\* to_select: among equal scores the candidate gathered earlier (an earlier batch,
\* or an earlier key of the same batch) comes first and survives the cut.
C28_StableTies ==
    /\ Len(options) = Min(to_select, Len(round))
    /\ \A i \in 1..Len(round) :
          StableRank(i) <= to_select => options[StableRank(i)] = Pair(round[i])
    /\ Yielded => ret.out = options

\* three candidates of one score gathered as b, a, a in two batches, target 2:
\* b and the first a are dispensed, in that order
C28_Witness ==
    /\ Yielded /\ to_select = 2 /\ Len(round) = 3
    /\ \A i \in 1..3 : round[i].score = round[1].score
    /\ round[1].key = "b" /\ round[2].key = "a" /\ round[3].key = "a"
    /\ ret.out = <<Pair(round[1]), Pair(round[2])>>

\* C29: the caller's samples are untouched. When add_possibilities is over, the
\* array that was passed holds what it held when it was passed, so that passing it
\* again gives the same scores.
C29_SamplesUntouched ==
    ret.op = "add_possibilities" =>
        /\ ret.args.after = ret.args.before
        /\ ret.err = Ok =>
              ScoreBatch([ndim |-> ret.args.ndim, vals |-> ret.args.after])
                  = ScoreBatch([ndim |-> ret.args.ndim, vals |-> ret.args.before])

\* a batch of two candidates and two objectives, the first one minimized, is merged
C29_Witness ==
    /\ ret.op = "add_possibilities" /\ ret.err = Ok
    /\ ret.args.nobj = 2 /\ ret.args.ncand = 2
    /\ ~maximize.scalar /\ maximize.flags = <<FALSE, TRUE>>
    /\ ret.args.after = <<<<1, 1>>, <<2, 2>>>>
    /\ Len(options) = Min(to_select, 2)

\* the cutoff, in Rydberg, of the basis sets the simulator documents
TabulatedCutoff(basis) ==
    CASE basis \in {"szv", "SZV"} -> 600 [] basis = "dzvp" -> 600 [] basis = "tzvp" -> 850
      [] OTHER -> 0

\* create_configuration has been asked for cp2k_blyp_<basis>
CP2KCall ==
    /\ simret.op = "create_configuration"
    /\ Len(simret.args.name) = 3
    /\ simret.args.name[1] = "cp2k" /\ simret.args.name[2] = "blyp"

\* the configuration the claim describes has been returned
CP2KConfig ==
    /\ simret.outcome = "returned" /\ simret.config.returns = "dict"
    /\ simret.config.name = "cp2k"
    /\ simret.config.kwargs.cutoff = <<TabulatedCutoff(simret.args.name[3]), "Ry">>
    /\ simret.config.kwargs.charge = simret.args.charge
    /\ simret.config.kwargs.uks = (simret.args.charge # 0)

\* the claim as stated: whatever the solvent
C23_AnySolvent ==
    CP2KCall =>
        IF TabulatedCutoff(simret.args.name[3]) # 0 THEN CP2KConfig
        ELSE simret.outcome = "raised" /\ simret.error = "AssertionError"

\* C23: CP2K configuration. For cp2k_blyp_<basis> with a tabulated cutoff, and a
\* solvent that is None or has solvent data, create_configuration returns a
\* configuration named cp2k with that cutoff in Rydberg (600 for szv), the requested
\* charge, and uks true exactly when the charge is not zero; for a basis without a
\* tabulated cutoff, and for a solvent without solvent data, it fails with an
\* AssertionError.
C23_CP2KConfiguration ==
    CP2KCall =>
        IF /\ TabulatedCutoff(simret.args.name[3]) # 0
           /\ simret.args.solvent \in {None, <<"acn">>}
        THEN CP2KConfig
        ELSE simret.outcome = "raised" /\ simret.error = "AssertionError"

\* cp2k_blyp_szv for a cation in acetonitrile: 600 Ry, charge 1, uks
C23_Witness ==
    /\ CP2KCall /\ simret.args.name[3] = "szv"
    /\ simret.args.charge = 1 /\ simret.args.solvent = <<"acn">>
    /\ simret.config.name = "cp2k"
    /\ simret.config.kwargs.cutoff = <<600, "Ry">>
    /\ simret.config.kwargs.charge = 1 /\ simret.config.kwargs.uks

\* C30: total configuration dispatch. For every name create_configuration returns
\* a dict (with its name and kwargs) or raises; it never returns None.
C30_TotalDispatch ==
    simret.op = "create_configuration" =>
        \/ simret.outcome = "raised"
        \/ simret.config.returns = "dict" /\ simret.config.name # ""

\* an operation of the simulator has run
SimulatorRan == simret.op \in {"optimize_structure", "compute_energy"}

\* C21: cleanup after failure. When the calculation of optimize_structure or
\* compute_energy has raised, the run directory is kept if the simulator was
\* constructed with retain_failed=True and deleted if it was constructed with
\* retain_failed=False, and the exception of the calculation is the one raised.
C21_CleanupAfterFailure ==
    (SimulatorRan /\ simret.body = "raised") =>
        /\ simret.outcome = "raised" /\ simret.error = "CalculationError"
        /\ retain_failed_arg <=> simret.run_path \in dirs

FrameRows(traj, config_name) ==
    {Row(traj[i], config_name, 0, None) : i \in 1..Len(traj)}

\* an optimization has run to its return statement
Optimized == simret.op = "optimize_structure" /\ simret.body = "returned"

\* C22: ASE database deduplication. The database holds at most one row per
\* (atoms_hash, config_name, total_charge, solvent); an optimization that runs to
\* its return leaves one row for each distinct frame of its trajectory, which on
\* an empty database makes the row count the number of distinct frames; and
\* repeating the optimization adds no rows.
C22_DatabaseDeduplication ==
    [][ /\ \A row \in BagToSet(db') : CopiesIn(row, db') = 1
        /\ Optimized' =>
              /\ \A row \in FrameRows(traj_lst', simret'.run_path[2]) : CopiesIn(row, db') = 1
              /\ db = EmptyBag =>
                    BagCardinality(db') = Cardinality(FrameRows(traj_lst', simret'.run_path[2]))
              /\ (Optimized /\ traj_lst' = traj_lst /\ simret'.run_path = simret.run_path)
                    => db' = db
      ]_vars

\* C24: non-empty validation set. Whenever retrain has split off a validation set
\* and len(valid_x) // batch_size is 0, the call fails with the assertion error,
\* fits nothing and returns no weights; a fit never has zero validation steps.
C24_ValidationData ==
    scorer.retrained.called =>
        /\ ( /\ scorer.model_msg \in {"NFPMessage", "dict"}
             /\ ~train_test_split(scorer.inputs, scorer.validation_split).raises
             /\ scorer.batch_size > 0
             /\ scorer.retrained.valid_x \div scorer.batch_size = 0 )
           => /\ scorer.retrained.error = "AssertionError"
              /\ ~scorer.retrained.fit /\ ~scorer.retrained.weights
        /\ scorer.retrained.fit =>
              /\ scorer.retrained.valid_x >= scorer.batch_size
              /\ scorer.retrained.valid_steps >= 1

\* six inputs, a tenth of them for validation, batches of three: the validation
\* set of one molecule fills no batch and the call fails
C24_Witness ==
    /\ scorer.retrained.called
    /\ scorer.inputs = 6 /\ scorer.validation_split = 10 /\ scorer.batch_size = 3
    /\ scorer.retrained.valid_x = 1
    /\ scorer.retrained.error = "AssertionError"
    /\ ~scorer.retrained.fit

\* the type index of the bond of graph g that joins the atoms of pair
BondTypeOf(g, pair) ==
    LET i == CHOOSE k \in 1..Len(g.bonds) :
                 {g.bonds[k][1], g.bonds[k][2]} = {pair[1], pair[2]}
    IN  bond_types_index(g.bonds[i][3])

Converted == scorer.mol_dict.called /\ scorer.mol_dict.error = ""

\* the returned connectivity lists every bond once per direction, in the order of
\* (first atom, second atom), and bond is as long
C31_Connectivity ==
    Converted =>
        LET conn == scorer.mol_dict.connectivity.rows
        IN  /\ Len(conn) = 2 * Len(scorer.graph.bonds)
            /\ {conn[i] : i \in 1..Len(conn)} =
                   Bonded(scorer.graph.bonds) \cup
                   {<<p[2], p[1]>> : p \in Bonded(scorer.graph.bonds)}
            /\ \A i, j \in 1..Len(conn) : i < j => LexLess(conn[i], conn[j])
            /\ Len(scorer.mol_dict.bond) = Len(conn)

\* a molecule without bonds gives an empty (0, 2) connectivity and an empty bond list
C31_NoBonds ==
    (Converted /\ scorer.graph.bonds = <<>>) =>
        /\ scorer.mol_dict.connectivity = [shape |-> <<0, 2>>, rows |-> <<>>]
        /\ scorer.mol_dict.bond = <<>>

\* bond[i] is the type of the bond that joins the atoms of connectivity[i]
C31_Aligned ==
    Converted =>
        \A i \in 1..Len(scorer.mol_dict.connectivity.rows) :
            /\ i <= Len(scorer.mol_dict.bond)
            /\ scorer.mol_dict.bond[i] =
                   BondTypeOf(scorer.graph, scorer.mol_dict.connectivity.rows[i])

\* C31: bond/connectivity alignment. The dictionary convert_string_to_dict returns
\* has a connectivity that lists every bond of the molecule in both directions,
\* sorted by (first atom, second atom), a bond list of the same length whose entry
\* i is the type of the bond joining the atoms of connectivity[i]; a molecule
\* without bonds gives an empty (0, 2) connectivity and an empty bond list.
C31_BondConnectivityAlignment == C31_Connectivity /\ C31_NoBonds /\ C31_Aligned

====
